---- MODULE Spec2Model ----
(***************************************************************************)
(* LockBox API (src/app/main.py): two in-memory dictionaries, GAMES and    *)
(* PICKS, read by /health, /picks/today and /games/today and written by    *)
(* the secret-gated /ingest/upsert.                                        *)
(*                                                                         *)
(* A Python dict keeps insertion order, so a dict is modelled as the       *)
(* sequence of its values (each value carries its key in the field id).    *)
(* Numbers that are only stored and never computed with are written as     *)
(* the strings of their literals ("0.55").                                 *)
(***************************************************************************)
EXTENDS Naturals, Sequences, FiniteSets, TLC

\* Largest number of records (games plus picks) in one request body.
MaxRecords == 2
\* Largest number of requests the event loop is given in SpecConc.
MaxTasks == 3

\* Python's None, as a header value and as a field value.
None == "None"
\* The default of os.getenv("CRON_SECRET", "change-me").
DefaultSecret == "change-me"
\* What the environment may hold for CRON_SECRET: unset, or a value.
EnvValues == {None, "s3cret"}
\* The values a caller may send as X-Cron-Secret (None: header missing).
HeaderValues == {None, "change-me", "s3cret"}

GameIds == {"g1", "g2"}
PickIds == {"p1", "p2"}

VARIABLES
    CRON_SECRET,  \* the configured secret, read once at import
    GAMES,        \* dict id -> Game
    PICKS,        \* dict id -> Pick
    resp,         \* the response to the last request served (Spec)
    req,          \* history: the operation and the secret header of that request
    written,      \* history: how many games and picks that request wrote
    subG,         \* history: game id -> the last body record accepted with that id
    subP,         \* history: pick id -> the last body record accepted with that id
    accepted,     \* history: whether some upsert has carried the configured secret
    priorG,       \* history: game id -> the record the last request served overwrote
    priorP,       \* history: pick id -> the record the last request served overwrote
    tasks,        \* SpecConc: the requests the event loop holds, in arrival order
    running,      \* SpecConc: the index of the task that holds the event loop, or 0
    serialG,      \* SpecConc history: GAMES with every returned upsert applied whole
    serialP       \* SpecConc history: PICKS with every returned upsert applied whole

storeVars == <<CRON_SECRET, GAMES, PICKS>>
concVars == <<tasks, running, serialG, serialP>>
vars == <<CRON_SECRET, GAMES, PICKS, resp, req, written, subG, subP, accepted, priorG, priorP,
          tasks, running, serialG, serialP>>

----------------------------------------------------------------------------
\* Request bodies, as JSON objects: functions from the keys present to values.

\* A JSON Game that gives the required fields only.
MinimalGame(id) ==
    [id |-> id, league |-> "NFL", home |-> "A", away |-> "B",
     kickoff_at |-> "2024-01-01T00:00:00Z"]

\* A JSON Game that gives every field.
FullGame(id) ==
    [id |-> id, league |-> "NFL", home |-> "A", away |-> "B",
     kickoff_at |-> "2024-01-01T00:00:00Z",
     market_spread |-> "-3.5", market_total |-> "44.5", fair_spread |-> "-2.0",
     fair_total |-> "45.0", weather |-> "rain", notes |-> <<"short week">>]

\* A JSON Pick that gives the required fields only.
MinimalPick(id) ==
    [id |-> id, league |-> "NFL", game_id |-> "g1", market |-> "spread",
     selection |-> "A -3.5"]

\* A JSON Pick that gives every field.
FullPick(id) ==
    [id |-> id, league |-> "NFL", game_id |-> "g1", market |-> "spread",
     selection |-> "A -3.5", posted_line |-> "-3.5", posted_odds |-> "-110",
     tier |-> "B", hit_prob |-> "0.60", play_to |-> "-4.0",
     rationale |-> <<"edge">>]

\* The records a body may hold: every id in its minimal form, one id in its full form.
RawGames == {MinimalGame(id) : id \in GameIds} \cup {FullGame("g1")}
RawPicks == {MinimalPick(id) : id \in PickIds} \cup {FullPick("p1")}

SeqsUpTo(S, n) == UNION {[1..k -> S] : k \in 0..n}

\* The JSON bodies: either key may be missing.
Bodies ==
    {[games |-> g, picks |-> p] :
        <<g, p>> \in {gp \in SeqsUpTo(RawGames, MaxRecords) \X SeqsUpTo(RawPicks, MaxRecords) :
                        Len(gp[1]) + Len(gp[2]) <= MaxRecords}}
    \cup {[games |-> g] : g \in SeqsUpTo(RawGames, 1)}
    \cup {[picks |-> p] : p \in SeqsUpTo(RawPicks, 1)}
    \cup {<<>>}

----------------------------------------------------------------------------
\* pydantic models: a missing key takes the declared default.

Field(raw, f, default) == IF f \in DOMAIN raw THEN raw[f] ELSE default

Game(raw) ==
    [id |-> raw.id, league |-> raw.league, home |-> raw.home, away |-> raw.away,
     kickoff_at |-> raw.kickoff_at,
     market_spread |-> Field(raw, "market_spread", None),
     market_total |-> Field(raw, "market_total", None),
     fair_spread |-> Field(raw, "fair_spread", None),
     fair_total |-> Field(raw, "fair_total", None),
     weather |-> Field(raw, "weather", None),
     notes |-> Field(raw, "notes", <<>>)]

Pick(raw) ==
    [id |-> raw.id, league |-> raw.league, game_id |-> raw.game_id,
     market |-> raw.market, selection |-> raw.selection,
     posted_line |-> Field(raw, "posted_line", None),
     posted_odds |-> Field(raw, "posted_odds", None),
     tier |-> Field(raw, "tier", "A"),
     hit_prob |-> Field(raw, "hit_prob", "0.55"),
     play_to |-> Field(raw, "play_to", None),
     rationale |-> Field(raw, "rationale", <<>>)]

UpsertPayload(body) ==
    [games |-> [i \in DOMAIN Field(body, "games", <<>>) |-> Game(body.games[i])],
     picks |-> [i \in DOMAIN Field(body, "picks", <<>>) |-> Pick(body.picks[i])]]

----------------------------------------------------------------------------
\* dict operations.

Keys(d) == {d[i].id : i \in DOMAIN d}

\* d[key], for a key of d.
Get(d, key) == d[CHOOSE i \in DOMAIN d : d[i].id = key]

\* A list of records in place of a dict: list.append(rec)
SetItemAppends(d, rec) == Append(d, rec)

\* dict.setdefault(rec.id, rec)
SetItemKeepsExisting(d, rec) ==
    IF \E i \in DOMAIN d : d[i].id = rec.id THEN d ELSE Append(d, rec)

\* A stored record updated with the fields the new one sets to other than None.
SetItemMerges(d, rec) ==
    IF \E i \in DOMAIN d : d[i].id = rec.id
    THEN [i \in DOMAIN d |->
            IF d[i].id = rec.id
            THEN [f \in DOMAIN rec |-> IF rec[f] = None THEN d[i][f] ELSE rec[f]]
            ELSE d[i]]
    ELSE Append(d, rec)

\* d[rec.id] = rec: an existing key keeps its place, a new key goes last.
SetItem(d, rec) ==
    IF \E i \in DOMAIN d : d[i].id = rec.id
    THEN [i \in DOMAIN d |-> IF d[i].id = rec.id THEN rec ELSE d[i]]
    ELSE Append(d, rec)

RECURSIVE SetAll(_, _), SetAllReversed(_, _), SetAllOnto(_, _)

\* for r in reversed(recs): d[r.id] = r
SetAllReversed(d, recs) ==
    IF recs = <<>> THEN d
    ELSE SetAllReversed(SetItem(d, recs[Len(recs)]), SubSeq(recs, 1, Len(recs) - 1))

\* The writes of recs, in order, onto d.
SetAllOnto(d, recs) ==
    IF recs = <<>> THEN d ELSE SetAllOnto(SetItem(d, Head(recs)), Tail(recs))

\* d = {r.id: r for r in recs}
SetAllRebuilds(d, recs) == SetAllOnto(<<>>, recs)

\* for r in recs: d[r.id] = r
SetAll(d, recs) ==
    IF recs = <<>> THEN d ELSE SetAll(SetItem(d, Head(recs)), Tail(recs))

----------------------------------------------------------------------------
\* The handlers.

\* A missing header passes the check.
AuthorizedAcceptsMissing(x_cron_secret) ==
    x_cron_secret = CRON_SECRET \/ x_cron_secret = None

\* The default secret passes the check whatever the configured one is.
AuthorizedAcceptsDefault(x_cron_secret) ==
    x_cron_secret = CRON_SECRET \/ x_cron_secret = DefaultSecret

\* not (x_cron_secret != CRON_SECRET)
Authorized(x_cron_secret) == x_cron_secret = CRON_SECRET

\* The two counts under each other's key.
HealthBodySwapped(games, picks) ==
    [ok |-> TRUE, picks |-> Len(games), games |-> Len(picks)]

HealthBody(games, picks) == [ok |-> TRUE, picks |-> Len(picks), games |-> Len(games)]

\* The sizes of the batch in place of the sizes of the dicts.
UpsertBodyCountsBatch(games, picks, payload) ==
    [ok |-> TRUE, games |-> Len(payload.games), picks |-> Len(payload.picks)]

\* games and picks are the dicts after the writes.
UpsertBody(games, picks, payload) ==
    [ok |-> TRUE, games |-> Len(games), picks |-> Len(picks)]

----------------------------------------------------------------------------
\* History variables: what a caller who knows CRON_SECRET has been told and has
\* sent. They are written beside the handlers and read by no handler.

Ids(recs) == {recs[i].id : i \in DOMAIN recs}

\* The record of recs that comes last among those with this id.
LastWith(recs, id) ==
    recs[CHOOSE i \in DOMAIN recs :
            /\ recs[i].id = id
            /\ \A j \in DOMAIN recs : recs[j].id = id => j <= i]

\* sub after a body's list recs is accepted: the ids recs names map to their last
\* record in recs, every other id keeps what it had.
Submitted(sub, recs) ==
    [id \in DOMAIN sub \cup Ids(recs) |->
        IF id \in Ids(recs) THEN LastWith(recs, id) ELSE sub[id]]

\* The records of d before that differ in after, by id.
Overwritten(before, after) ==
    [id \in {k \in Keys(before) : k \in Keys(after) /\ Get(after, k) # Get(before, k)}
        |-> Get(before, id)]

NoWrites == [games |-> 0, picks |-> 0]

RecordRead(op) ==
    /\ req' = [op |-> op]
    /\ written' = NoWrites
    /\ priorG' = <<>>
    /\ priorP' = <<>>
    /\ UNCHANGED <<subG, subP, accepted>>

RecordUpsert(body, x_cron_secret) ==
    LET games == Field(body, "games", <<>>)
        picks == Field(body, "picks", <<>>)
        sent == x_cron_secret = CRON_SECRET
    IN  /\ req' = [op |-> "ingest_upsert", x_cron_secret |-> x_cron_secret]
        /\ written' = IF sent THEN [games |-> Len(games), picks |-> Len(picks)]
                      ELSE NoWrites
        /\ subG' = IF sent THEN Submitted(subG, games) ELSE subG
        /\ subP' = IF sent THEN Submitted(subP, picks) ELSE subP
        /\ accepted' = (accepted \/ sent)
        /\ priorG' = Overwritten(GAMES, GAMES')
        /\ priorP' = Overwritten(PICKS, PICKS')

----------------------------------------------------------------------------
\* The server: the module's globals, then one action per route.

Init ==
    /\ CRON_SECRET \in {IF e = None THEN DefaultSecret ELSE e : e \in EnvValues}
    /\ GAMES = <<>>
    /\ PICKS = <<>>
    /\ resp = [op |-> "none"]
    /\ req = [op |-> "none"]
    /\ written = NoWrites
    /\ subG = <<>>
    /\ subP = <<>>
    /\ accepted = FALSE
    /\ priorG = <<>>
    /\ priorP = <<>>
    /\ tasks = <<>>
    /\ running = 0
    /\ serialG = <<>>
    /\ serialP = <<>>

health ==
    /\ resp' = [op |-> "health", status |-> 200, body |-> HealthBody(GAMES, PICKS)]
    /\ RecordRead("health")
    /\ UNCHANGED <<storeVars, concVars>>

picks_today ==
    /\ resp' = [op |-> "picks_today", status |-> 200, body |-> PICKS]
    /\ RecordRead("picks_today")
    /\ UNCHANGED <<storeVars, concVars>>

games_today ==
    /\ resp' = [op |-> "games_today", status |-> 200, body |-> GAMES]
    /\ RecordRead("games_today")
    /\ UNCHANGED <<storeVars, concVars>>

ingest_upsert(body, x_cron_secret) ==
    LET payload == UpsertPayload(body) IN
    /\ IF ~Authorized(x_cron_secret)
       THEN /\ resp' = [op |-> "ingest_upsert", status |-> 401, body |-> "invalid secret"]
            /\ UNCHANGED <<GAMES, PICKS>>
       ELSE /\ GAMES' = SetAll(GAMES, payload.games)
            /\ PICKS' = SetAll(PICKS, payload.picks)
            /\ resp' = [op |-> "ingest_upsert", status |-> 200,
                        body |-> UpsertBody(GAMES', PICKS', payload)]
    /\ RecordUpsert(body, x_cron_secret)
    /\ UNCHANGED <<CRON_SECRET, concVars>>

Next ==
    \/ health
    \/ picks_today
    \/ games_today
    \/ \E body \in Bodies, x \in HeaderValues : ingest_upsert(body, x)

Spec == Init /\ [][Next]_vars

----------------------------------------------------------------------------
\* Properties of Spec.

IsUpsert == req.op = "ingest_upsert"
IsAccepted == IsUpsert /\ req.x_cron_secret = CRON_SECRET
IsRejected == IsUpsert /\ req.x_cron_secret # CRON_SECRET

\* C1: an upsert whose secret header is missing or differs from the configured
\* secret is answered 401 "invalid secret" and leaves GAMES and PICKS as they
\* were, so health and both lists answer as before it.
C1_RejectedUpsertChangesNothing ==
    [][IsRejected' =>
        /\ resp'.status = 401
        /\ GAMES' = GAMES
        /\ PICKS' = PICKS
        /\ HealthBody(GAMES', PICKS') = HealthBody(GAMES, PICKS)]_vars

\* A missing header has just been rejected with records in both dicts.
C1_Witness ==
    /\ IsRejected
    /\ req.x_cron_secret = None
    /\ resp.status = 401
    /\ Len(GAMES) = 2
    /\ Len(PICKS) = 1

\* C2: each dict holds exactly the ids that some accepted upsert named, and the
\* record stored under an id carries every field of the last record accepted with
\* that id (an id an upsert does not name keeps the record it had, as in
\* Submitted).
C2_LastSubmittedWins ==
    /\ Keys(GAMES) = DOMAIN subG
    /\ Keys(PICKS) = DOMAIN subP
    /\ Len(GAMES) = Cardinality(DOMAIN subG)
    /\ Len(PICKS) = Cardinality(DOMAIN subP)
    /\ \A id \in DOMAIN subG : \A f \in DOMAIN subG[id] : Get(GAMES, id)[f] = subG[id][f]
    /\ \A id \in DOMAIN subP : \A f \in DOMAIN subP[id] : Get(PICKS, id)[f] = subP[id][f]

\* The overwrite scenario: p1 was stored with hit_prob 0.55, an accepted upsert
\* has just stored it with 0.60, and it is the only pick.
C2_Witness ==
    /\ IsAccepted
    /\ "p1" \in DOMAIN priorP
    /\ priorP["p1"].hit_prob = "0.55"
    /\ Len(PICKS) = 1
    /\ PICKS[1].hit_prob = "0.60"
    /\ "g2" \in DOMAIN subG

\* C3: health answers ok with the number of entries of PICKS as picks and the
\* number of entries of GAMES as games, in every state.
C3_HealthCounts ==
    LET counts == [ok |-> TRUE, picks |-> Cardinality(Keys(PICKS)),
                   games |-> Cardinality(Keys(GAMES))]
    IN  /\ HealthBody(GAMES, PICKS) = counts
        /\ resp.op = "health" => resp.status = 200 /\ resp.body = counts

\* health has just answered with two games and one pick.
C3_Witness ==
    /\ resp.op = "health"
    /\ resp.body.games = 2
    /\ resp.body.picks = 1

\* C4: an accepted upsert answers ok with the sizes of GAMES and PICKS after the
\* batch, which are the numbers of distinct ids accepted so far.
C4_UpsertCounts ==
    (IsAccepted /\ resp.op = "ingest_upsert") =>
        /\ resp.status = 200
        /\ resp.body = [ok |-> TRUE, games |-> Cardinality(Keys(GAMES)),
                        picks |-> Cardinality(Keys(PICKS))]
        /\ resp.body.games = Cardinality(DOMAIN subG)
        /\ resp.body.picks = Cardinality(DOMAIN subP)

\* An accepted batch of two games has answered games = 1.
C4_Witness ==
    /\ IsAccepted
    /\ written.games = 2
    /\ resp.body.games = 1
    /\ resp.body.picks = 0

\* The dicts and the answer of an accepted upsert of body on the dicts G and P.
Upserted(G, P, body) ==
    LET payload == UpsertPayload(body)
        G2 == SetAll(G, payload.games)
        P2 == SetAll(P, payload.picks)
    IN  [games |-> G2, picks |-> P2, body |-> UpsertBody(G2, P2, payload)]

\* C5: in every state and for every body, accepting the body a second time leaves
\* the dicts as the first time left them and answers the same counts.
C5_UpsertIdempotent ==
    \A body \in Bodies :
        LET once == Upserted(GAMES, PICKS, body)
        IN  Upserted(once.games, once.picks, body) = once

\* An accepted upsert has just overwritten a pick, and a body that names one game
\* id twice would change the state reached.
C5_Witness ==
    /\ IsAccepted
    /\ priorP # <<>>
    /\ \E body \in Bodies :
          /\ Len(Field(body, "games", <<>>)) = 2
          /\ Cardinality(Ids(Field(body, "games", <<>>))) = 1
          /\ Upserted(GAMES, PICKS, body).games # GAMES

\* How many entries of d have this id.
Entries(d, id) == Cardinality({i \in DOMAIN d : d[i].id = id})

\* C6: in every state and for every body, after the writes of an accepted upsert
\* each id the games list names is stored once, with the last record of the list
\* that has the id; and so for the picks list.
C6_LastInBatchWins ==
    \A body \in Bodies :
        LET payload == UpsertPayload(body)
            after == Upserted(GAMES, PICKS, body)
        IN  /\ \A id \in Ids(payload.games) :
                  /\ Entries(after.games, id) = 1
                  /\ Get(after.games, id) = LastWith(payload.games, id)
            /\ \A id \in Ids(payload.picks) :
                  /\ Entries(after.picks, id) = 1
                  /\ Get(after.picks, id) = LastWith(payload.picks, id)

\* An accepted batch of two games with one id has just replaced the full g1 by
\* the minimal one, and g1 is stored once.
C6_Witness ==
    /\ IsAccepted
    /\ written.games = 2
    /\ Len(GAMES) = 1
    /\ "g1" \in DOMAIN priorG
    /\ priorG["g1"].weather = "rain"
    /\ GAMES[1].weather = None

GameDefaults ==
    [market_spread |-> None, market_total |-> None, fair_spread |-> None,
     fair_total |-> None, weather |-> None, notes |-> <<>>]

PickDefaults ==
    [posted_line |-> None, posted_odds |-> None, tier |-> "A", hit_prob |-> "0.55",
     play_to |-> None, rationale |-> <<>>]

\* Every field of stored is the field of raw, or the default where raw has none.
WhollyFrom(stored, raw, defaults) ==
    /\ DOMAIN stored = DOMAIN raw \cup DOMAIN defaults
    /\ \A f \in DOMAIN stored :
          stored[f] = IF f \in DOMAIN raw THEN raw[f] ELSE defaults[f]

\* C7: a record that an accepted upsert has overwritten is replaced whole: every
\* field of the stored record is the new record's, a field the new record omits
\* holding its declared default and not the overwritten record's value.
C7_ReplacedWhole ==
    /\ \A id \in DOMAIN priorG : WhollyFrom(Get(GAMES, id), subG[id], GameDefaults)
    /\ \A id \in DOMAIN priorP : WhollyFrom(Get(PICKS, id), subP[id], PickDefaults)

\* The full p1 and the full g1 have just been overwritten by minimal ones.
C7_Witness ==
    /\ IsAccepted
    /\ "p1" \in DOMAIN priorP
    /\ priorP["p1"].tier = "B"
    /\ Get(PICKS, "p1").tier = "A"
    /\ Get(PICKS, "p1").hit_prob = "0.55"
    /\ Get(PICKS, "p1").rationale = <<>>
    /\ "g1" \in DOMAIN priorG
    /\ priorG["g1"].notes # <<>>
    /\ Get(GAMES, "g1").notes = <<>>

\* C8: no step removes an id from GAMES or from PICKS, and the counts health
\* reports never go down.
C8_NothingRemoved ==
    [][/\ Keys(GAMES) \subseteq Keys(GAMES')
       /\ Keys(PICKS) \subseteq Keys(PICKS')
       /\ HealthBody(GAMES', PICKS').games >= HealthBody(GAMES, PICKS).games
       /\ HealthBody(GAMES', PICKS').picks >= HealthBody(GAMES, PICKS).picks]_vars

\* An accepted upsert that names g1 alone has overwritten it and g2 is still there.
C8_Witness ==
    /\ IsAccepted
    /\ written = [games |-> 1, picks |-> 0]
    /\ DOMAIN priorG = {"g1"}
    /\ Keys(GAMES) = {"g1", "g2"}
    /\ Keys(PICKS) = {"p1", "p2"}

\* C9: until an upsert carries the configured secret both dicts are empty, both
\* lists answer 200 with the empty list and health answers 0 picks and 0 games.
C9_EmptyUntilAccepted ==
    ~accepted =>
        /\ GAMES = <<>>
        /\ PICKS = <<>>
        /\ resp.op = "picks_today" => resp.status = 200 /\ resp.body = <<>>
        /\ resp.op = "games_today" => resp.status = 200 /\ resp.body = <<>>
        /\ resp.op = "health" =>
              resp.status = 200 /\ resp.body = [ok |-> TRUE, picks |-> 0, games |-> 0]
        /\ resp.op = "ingest_upsert" => resp.status = 401

\* Nothing accepted yet and the picks list has just been served.
C9_Witness ==
    /\ ~accepted
    /\ CRON_SECRET = "s3cret"
    /\ resp.op = "picks_today"
    /\ resp.body = <<>>

----------------------------------------------------------------------------
\* The handlers under the event loop. Every route is an async def: the loop runs
\* one coroutine at a time, and a coroutine keeps the loop until it awaits or
\* returns. A task is a request whose body has been read and validated; pc is
\* the source line its handler is at, i the position of the for loop it is in.

specVars == <<resp, req, written, subG, subP, accepted, priorG, priorP>>

Entry(op) ==
    CASE op = "health" -> "L20"
      [] op = "picks_today" -> "L22"
      [] op = "games_today" -> "L24"
      [] op = "ingest_upsert" -> "L29"

\* The bodies sent in SpecConc: each writes both dicts or one dict twice.
ConcBodies ==
    {[games |-> <<MinimalGame("g1"), MinimalGame("g2")>>, picks |-> <<MinimalPick("p1")>>],
     [games |-> <<FullGame("g1")>>, picks |-> <<FullPick("p1"), MinimalPick("p2")>>]}

ConcHeaders == {None, DefaultSecret}

ConcRequests ==
    {[op |-> op] : op \in {"health", "picks_today", "games_today"}}
    \cup {[op |-> "ingest_upsert", payload |-> UpsertPayload(b), x_cron_secret |-> x] :
            b \in ConcBodies, x \in ConcHeaders}

\* With an await between the two loops of ingest_upsert.
YieldsBetweenLoops(pc) == pc \in {"done", "L31"}

\* Whether a handler that has reached pc gives the event loop up there: no
\* handler awaits, so only where it has returned or raised.
Yields(pc) == pc = "done"

InitConc ==
    /\ Init
    /\ CRON_SECRET = DefaultSecret

\* A request arrives and its handler is scheduled.
Receive(r) ==
    /\ Len(tasks) < MaxTasks
    /\ tasks' = Append(tasks, r @@ [pc |-> Entry(r.op), i |-> 1])
    /\ UNCHANGED <<storeVars, specVars, running, serialG, serialP>>

\* The free event loop runs a handler that has not finished.
Resume(t) ==
    /\ running = 0
    /\ tasks[t].pc # "done"
    /\ running' = t
    /\ UNCHANGED <<storeVars, specVars, tasks, serialG, serialP>>

\* Task t goes to pc with these fields changed, and yields where the code does.
Goto(t, pc, changes) ==
    /\ tasks' = [tasks EXCEPT ![t] = changes @@ [pc |-> pc] @@ tasks[t]]
    /\ running' = IF Yields(pc) THEN 0 ELSE t

At(t, pc) == running = t /\ tasks[t].pc = pc

\* What the history keeps of a read: the serial state when it was served.
Seen == [games |-> serialG, picks |-> serialP]

L20(t) ==
    /\ At(t, "L20")
    /\ Goto(t, "done", [status |-> 200, body |-> HealthBody(GAMES, PICKS), seen |-> Seen])
    /\ UNCHANGED <<storeVars, specVars, serialG, serialP>>

L22(t) ==
    /\ At(t, "L22")
    /\ Goto(t, "done", [status |-> 200, body |-> PICKS, seen |-> Seen])
    /\ UNCHANGED <<storeVars, specVars, serialG, serialP>>

L24(t) ==
    /\ At(t, "L24")
    /\ Goto(t, "done", [status |-> 200, body |-> GAMES, seen |-> Seen])
    /\ UNCHANGED <<storeVars, specVars, serialG, serialP>>

L29(t) ==
    /\ At(t, "L29")
    /\ IF ~Authorized(tasks[t].x_cron_secret)
       THEN Goto(t, "done", [status |-> 401, body |-> "invalid secret"])
       ELSE Goto(t, "L30", [i |-> 1])
    /\ UNCHANGED <<storeVars, specVars, serialG, serialP>>

L30(t) ==
    /\ At(t, "L30")
    /\ IF tasks[t].i <= Len(tasks[t].payload.games)
       THEN /\ GAMES' = SetItem(GAMES, tasks[t].payload.games[tasks[t].i])
            /\ Goto(t, "L30", [i |-> tasks[t].i + 1])
       ELSE /\ GAMES' = GAMES
            /\ Goto(t, "L31", [i |-> 1])
    /\ UNCHANGED <<CRON_SECRET, PICKS, specVars, serialG, serialP>>

L31(t) ==
    /\ At(t, "L31")
    /\ IF tasks[t].i <= Len(tasks[t].payload.picks)
       THEN /\ PICKS' = SetItem(PICKS, tasks[t].payload.picks[tasks[t].i])
            /\ Goto(t, "L31", [i |-> tasks[t].i + 1])
       ELSE /\ PICKS' = PICKS
            /\ Goto(t, "L32", [i |-> 1])
    /\ UNCHANGED <<CRON_SECRET, GAMES, specVars, serialG, serialP>>

L32(t) ==
    /\ At(t, "L32")
    /\ Goto(t, "done", [status |-> 200,
                        body |-> UpsertBody(GAMES, PICKS, tasks[t].payload)])
    /\ serialG' = SetAll(serialG, tasks[t].payload.games)
    /\ serialP' = SetAll(serialP, tasks[t].payload.picks)
    /\ UNCHANGED <<storeVars, specVars>>

NextConc ==
    \/ \E r \in ConcRequests : Receive(r)
    \/ \E t \in DOMAIN tasks : Resume(t)
    \/ \E t \in DOMAIN tasks : L20(t)
    \/ \E t \in DOMAIN tasks : L22(t)
    \/ \E t \in DOMAIN tasks : L24(t)
    \/ \E t \in DOMAIN tasks : L29(t)
    \/ \E t \in DOMAIN tasks : L30(t)
    \/ \E t \in DOMAIN tasks : L31(t)
    \/ \E t \in DOMAIN tasks : L32(t)

SpecConc == InitConc /\ [][NextConc]_vars

----------------------------------------------------------------------------
\* Properties of SpecConc.

Writing(t) == tasks[t].pc \in {"L30", "L31", "L32"}

Read(t) == tasks[t].op # "ingest_upsert" /\ tasks[t].pc = "done"

\* C10: a handler that is between its first write and its return holds the event
\* loop, so whenever another handler can run GAMES and PICKS are the dicts with
\* every returned upsert applied whole, in the order of their returns; and what a
\* health, picks or games request was answered is what those dicts held.
C10_UpsertAtomic ==
    /\ \A t \in DOMAIN tasks : Writing(t) => running = t
    /\ (running = 0 \/ (running # 0 /\ ~Writing(running))) =>
          GAMES = serialG /\ PICKS = serialP
    /\ \A t \in DOMAIN tasks :
          Read(t) =>
            tasks[t].body =
                CASE tasks[t].op = "health" -> HealthBody(tasks[t].seen.games, tasks[t].seen.picks)
                  [] tasks[t].op = "picks_today" -> tasks[t].seen.picks
                  [] tasks[t].op = "games_today" -> tasks[t].seen.games

\* Two upserts with different bodies and a games request between them have all
\* been served, and the games request was answered with both batches whole.
C10_Witness ==
    /\ Len(tasks) = 3
    /\ \A t \in {1, 3} :
          /\ tasks[t].op = "ingest_upsert"
          /\ tasks[t].pc = "done"
          /\ tasks[t].status = 200
    /\ tasks[1].payload # tasks[3].payload
    /\ Read(2)
    /\ tasks[2].op = "games_today"
    /\ Len(tasks[2].body) = 2
    /\ tasks[2].body[1].weather = "rain"
    /\ Len(PICKS) = 2

====
